---- MODULE Spec2Model ----
(***************************************************************************)
(* Model of src/proxy-server.js: a local HTTP server that answers CORS     *)
(* preflights, proxies fund-data requests to two upstream endpoints and    *)
(* serves static files with an ".html" fallback.                           *)
(*                                                                         *)
(* JavaScript strings the code inspects (paths, fund codes, the days       *)
(* parameter, target URLs) are sequences of one-character strings, so that *)
(* startsWith, split, the regular expression, parseInt, template literals, *)
(* url.parse, path.join and path.extname are computed, not assumed.        *)
(* Header values and fixed texts the code never inspects are TLA+ strings. *)
(***************************************************************************)
EXTENDS Integers, Sequences, FiniteSets, TLC

VARIABLES
    server,     \* "starting" | "listening" | "closing" | "closed": the http.Server
    exitCode,   \* -1 while the process runs, else the status it exited with
    closeCbs,   \* number of callbacks registered by server.close (one per SIGINT)
    files,      \* filesystem: the paths that exist (fs.access F_OK succeeds)
    unreadable, \* filesystem: the existing paths whose fs.readFile fails
    reqs        \* the requests received so far, in order of arrival

vars == <<server, exitCode, closeCbs, files, unreadable, reqs>>

----------------------------------------------------------------------------
(* Bounds of the model *)

\* requests the concurrent specification lets arrive
MaxReq == 2
\* body chunks an upstream response delivers at most
MaxChunks == 1
\* files the filesystem of the single-request specification holds at most
MaxFiles == 1
\* interrupt signals delivered at most
MaxSigint == 2

----------------------------------------------------------------------------
(* Program constants *)

PORT == 9988

Digits == {"0", "1", "2", "3", "4", "5", "6", "7", "8", "9"}

DigitValue(c) ==
    CASE c = "0" -> 0 [] c = "1" -> 1 [] c = "2" -> 2 [] c = "3" -> 3
      [] c = "4" -> 4 [] c = "5" -> 5 [] c = "6" -> 6 [] c = "7" -> 7
      [] c = "8" -> 8 [] c = "9" -> 9

DigitChar(d) ==
    CASE d = 0 -> "0" [] d = 1 -> "1" [] d = 2 -> "2" [] d = 3 -> "3"
      [] d = 4 -> "4" [] d = 5 -> "5" [] d = 6 -> "6" [] d = 7 -> "7"
      [] d = 8 -> "8" [] d = 9 -> "9"

\* the characters String.prototype.trim / parseInt skip as white space
WhiteSpace == {" ", "\t", "\n", "\r"}

HistoryPrefix == <<"/", "a", "p", "i", "/", "f", "u", "n", "d", "/", "h", "i", "s", "t", "o", "r", "y", "/">>
FundPrefix == <<"/", "a", "p", "i", "/", "f", "u", "n", "d", "/">>
RootPath == <<"/">>
DefaultDocument == <<"f", "u", "n", "d", "_", "c", "a", "l", "c", "u", "l", "a", "t", "o", "r", ".", "h", "t", "m", "l">>
HtmlExt == <<".", "h", "t", "m", "l">>
Https == <<"h", "t", "t", "p", "s">>
HistoryUrlHead == <<"h", "t", "t", "p", "s", ":", "/", "/", "f", "u", "n", "d", "m", "o", "b", "a", "p", "i", ".", "e", "a", "s", "t", "m", "o", "n", "e", "y", ".", "c", "o", "m", "/", "F", "u", "n", "d", "M", "N", "e", "w", "A", "p", "i", "/", "F", "u", "n", "d", "M", "N", "H", "i", "s", "N", "e", "t", "L", "i", "s", "t", "?">>
HistoryUrlFcode == <<"F", "C", "O", "D", "E", "=">>
HistoryUrlPage == <<"&", "p", "a", "g", "e", "I", "n", "d", "e", "x", "=", "1", "&", "p", "a", "g", "e", "S", "i", "z", "e", "=">>
HistoryUrlTail == <<"&", "a", "p", "p", "T", "y", "p", "e", "=", "t", "t", "j", "j", "&", "p", "r", "o", "d", "u", "c", "t", "=", "E", "F", "u", "n", "d", "&", "p", "l", "a", "t", "=", "I", "p", "h", "o", "n", "e", "&", "v", "e", "r", "s", "i", "o", "n", "=", "6", ".", "3", ".", "8", "&", "d", "e", "v", "i", "c", "e", "i", "d", "=", "0", "0", "0", "0", "0", "0", "0", "0", "-", "0", "0", "0", "0", "-", "0", "0", "0", "0", "-", "0", "0", "0", "0", "-", "0", "0", "0", "0", "0", "0", "0", "0", "0", "0", "0", "0">>
SnapshotUrlHead == <<"h", "t", "t", "p", "s", ":", "/", "/", "f", "u", "n", "d", "g", "z", ".", "1", "2", "3", "4", "5", "6", "7", ".", "c", "o", "m", ".", "c", "n", "/", "j", "s", "/">>
SnapshotUrlTail == <<".", "j", "s">>

\* String(undefined): what parseInt sees when the query has no days parameter
Undefined == <<"u", "n", "d", "e", "f", "i", "n", "e", "d">>

\* __dirname, the directory of proxy-server.js (its value is the deployment's)
Dirname == <<"/", "s", "r", "v">>

\* the fixed text of the 500 body's "error" key (a non-ASCII literal in the source)
ProxyErrorText == "proxy request failed"

mimeTypes(ext) ==
    CASE ext = <<".", "h", "t", "m", "l">> -> "text/html"
      [] ext = <<".", "j", "s">> -> "text/javascript"
      [] ext = <<".", "c", "s", "s">> -> "text/css"
      [] ext = <<".", "j", "s", "o", "n">> -> "application/json"
      [] ext = <<".", "p", "n", "g">> -> "image/png"
      [] ext = <<".", "j", "p", "g">> -> "image/jpg"
      [] ext = <<".", "g", "i", "f">> -> "image/gif"
      [] ext = <<".", "s", "v", "g">> -> "image/svg+xml"
      [] ext = <<".", "w", "a", "v">> -> "audio/wav"
      [] ext = <<".", "m", "p", "4">> -> "video/mp4"
      [] ext = <<".", "w", "o", "f", "f">> -> "application/font-woff"
      [] ext = <<".", "t", "t", "f">> -> "application/font-ttf"
      [] ext = <<".", "e", "o", "t">> -> "application/vnd.ms-fontobject"
      [] ext = <<".", "o", "t", "f">> -> "application/font-otf"
      [] ext = <<".", "w", "a", "s", "m">> -> "application/wasm"
      [] OTHER -> "text/plain"

----------------------------------------------------------------------------
(* String functions of JavaScript and of Node's url and path modules *)

\* String.prototype.startsWith
startsWith(s, prefix) ==
    /\ Len(s) >= Len(prefix)
    /\ SubSeq(s, 1, Len(prefix)) = prefix

\* index of the last occurrence of character c in s, 0 when there is none
LastIndexOf(s, c) ==
    IF \E k \in 1..Len(s) : s[k] = c
    THEN CHOOSE k \in 1..Len(s) : s[k] = c /\ \A m \in (k + 1)..Len(s) : s[m] # c
    ELSE 0

\* index of the first occurrence of character c in s, 0 when there is none
IndexOf(s, c) ==
    IF \E k \in 1..Len(s) : s[k] = c
    THEN CHOOSE k \in 1..Len(s) : s[k] = c /\ \A m \in 1..(k - 1) : s[m] # c
    ELSE 0

\* String.prototype.split('/'): the segments between the slashes
RECURSIVE split(_)
split(s) ==
    LET k == IndexOf(s, "/") IN
    IF k = 0 THEN <<s>>
    ELSE <<SubSeq(s, 1, k - 1)>> \o split(SubSeq(s, k + 1, Len(s)))

\* the test without its anchors, /\d{6}/: six digits anywhere in s
IsFundCodeUnanchored(s) ==
    \E k \in 1..(Len(s) - 5) : \A m \in k..(k + 5) : s[m] \in Digits

\* /^\d{6}$/.test(s)
IsFundCode(s) ==
    /\ Len(s) = 6
    /\ \A k \in 1..Len(s) : s[k] \in Digits

\* the value of a sequence of decimal digits
RECURSIVE DigitsValue(_)
DigitsValue(ds) ==
    IF ds = <<>> THEN 0
    ELSE 10 * DigitsValue(SubSeq(ds, 1, Len(ds) - 1)) + DigitValue(ds[Len(ds)])

\* the longest prefix of s made of decimal digits
RECURSIVE DigitPrefix(_)
DigitPrefix(s) ==
    IF s # <<>> /\ s[1] \in Digits
    THEN <<s[1]>> \o DigitPrefix(SubSeq(s, 2, Len(s)))
    ELSE <<>>

\* s without its leading white space
RECURSIVE TrimStart(_)
TrimStart(s) ==
    IF s # <<>> /\ s[1] \in WhiteSpace THEN TrimStart(SubSeq(s, 2, Len(s))) ELSE s

\* parseInt(s, 10): skips leading white space, takes an optional sign and the
\* longest run of digits after it, ignores what follows; NaN when no digit is
\* there. (The days values of AllDays have at most four digits; a run of more
\* than 308 digits, which parseInt reads as Infinity, is outside the model.)
parseInt(s) ==
    LET t == TrimStart(s)
        neg == t # <<>> /\ t[1] = "-"
        signed == t # <<>> /\ t[1] \in {"-", "+"}
        body == IF signed THEN SubSeq(t, 2, Len(t)) ELSE t
        ds == DigitPrefix(body)
    IN  IF ds = <<>> THEN [isNaN |-> TRUE, value |-> 0]
        ELSE [isNaN |-> FALSE,
              value |-> IF neg THEN 0 - DigitsValue(ds) ELSE DigitsValue(ds)]

\* the decimal text of a natural number, as a template literal writes it
RECURSIVE NumberToString(_)
NumberToString(n) ==
    IF n < 10 THEN <<DigitChar(n)>>
    ELSE NumberToString(n \div 10) \o <<DigitChar(n % 10)>>

Min(a, b) == IF a < b THEN a ELSE b
Max(a, b) == IF a > b THEN a ELSE b

\* url.parse(u).hostname, .port and .path of an absolute URL scheme://host[:port]/path
UrlAuthority(u) ==
    LET rest == SubSeq(u, IndexOf(u, ":") + 3, Len(u))
        slash == IndexOf(rest, "/")
    IN  IF slash = 0 THEN rest ELSE SubSeq(rest, 1, slash - 1)

UrlHostname(u) ==
    LET a == UrlAuthority(u)
        colon == IndexOf(a, ":")
    IN  IF colon = 0 THEN a ELSE SubSeq(a, 1, colon - 1)

\* url.parse(u).port: null (here <<>>) when the URL names no port
UrlPort(u) ==
    LET a == UrlAuthority(u)
        colon == IndexOf(a, ":")
    IN  IF colon = 0 THEN <<>> ELSE SubSeq(a, colon + 1, Len(a))

UrlPath(u) ==
    LET rest == SubSeq(u, IndexOf(u, ":") + 3, Len(u))
        slash == IndexOf(rest, "/")
    IN  IF slash = 0 THEN <<"/">> ELSE SubSeq(rest, slash, Len(rest))

\* path.normalize of an absolute path: empty and "." segments dropped, ".."
\* steps up (never above the root), a trailing slash kept
RECURSIVE NormalizeSegments(_, _)
NormalizeSegments(segs, acc) ==
    IF segs = <<>> THEN acc
    ELSE LET s == Head(segs) IN
         NormalizeSegments(Tail(segs),
            IF s = <<>> \/ s = <<".">> THEN acc
            ELSE IF s = <<".", ".">>
                 THEN (IF acc = <<>> THEN acc ELSE SubSeq(acc, 1, Len(acc) - 1))
                 ELSE Append(acc, s))

RECURSIVE JoinSegments(_)
JoinSegments(segs) ==
    IF segs = <<>> THEN <<>>
    ELSE <<"/">> \o Head(segs) \o JoinSegments(Tail(segs))

\* path.join(dir, p) for an absolute dir
pathJoin(dir, p) ==
    LET raw == dir \o <<"/">> \o p
        segs == NormalizeSegments(split(raw), <<>>)
        joined == JoinSegments(segs)
        trailing == raw[Len(raw)] = "/" /\ segs # <<>>
    IN  IF segs = <<>> THEN <<"/">>
        ELSE IF trailing THEN joined \o <<"/">> ELSE joined

\* s without its trailing slashes
RECURSIVE StripTrailingSlashes(_)
StripTrailingSlashes(s) ==
    IF s # <<>> /\ s[Len(s)] = "/"
    THEN StripTrailingSlashes(SubSeq(s, 1, Len(s) - 1))
    ELSE s

\* path.extname(p): from the last "." of the last path component to its end;
\* empty when there is no ".", when the "." is the component's first character,
\* or when the component is ".."
extname(p) ==
    LET q == StripTrailingSlashes(p)
        base == SubSeq(q, LastIndexOf(q, "/") + 1, Len(q))
        dot == LastIndexOf(base, ".")
    IN  IF dot <= 1 \/ base = <<".", ".">> THEN <<>>
        ELSE SubSeq(base, dot, Len(base))

----------------------------------------------------------------------------
(* The client response object (http.ServerResponse) *)

\* the four CORS headers, by the lower-case names Node stores headers under
CORSHeaders ==
    [n \in {"access-control-allow-origin", "access-control-allow-methods",
            "access-control-allow-headers", "access-control-allow-credentials"} |->
        CASE n = "access-control-allow-origin" -> "*"
          [] n = "access-control-allow-methods" -> "GET, POST, PUT, DELETE, OPTIONS"
          [] n = "access-control-allow-headers" -> "Content-Type, Authorization, X-Requested-With"
          [] n = "access-control-allow-credentials" -> "true"]

NoHeaders == [n \in {} |-> ""]

\* a response nothing has been written to
NewResponse ==
    [headers |-> NoHeaders, statusCode |-> 0, headWrites |-> 0,
     body |-> <<>>, ended |-> FALSE]

\* res.setHeader for each of the four CORS headers
setCORSHeaders(res) ==
    [res EXCEPT !.headers = CORSHeaders @@ @]

\* res.writeHead(status, headers): the headers given here replace those of the
\* same name set before with setHeader
writeHead(res, status, headers) ==
    [res EXCEPT !.statusCode = status,
                !.headers = headers @@ @,
                !.headWrites = @ + 1]

\* res.end(chunks): writes what is left and finishes the response. A body is
\* the sequence of chunks written: [text |-> ...] a literal text, [fileAt |-> p]
\* the bytes of the file at p, [json |-> ...] a JSON text, [chunk |-> k] the
\* k-th chunk of an upstream body
end(res, chunks) ==
    [res EXCEPT !.body = @ \o chunks, !.ended = TRUE]

\* res.write(chunk), as proxyRes.pipe(res) calls it
write(res, chunk) ==
    [res EXCEPT !.body = Append(@, chunk)]

\* the 404 head written and the response never ended
NotFoundUnended(res) ==
    writeHead(res, 404, ("content-type" :> "text/plain"))

\* the 404 response of the static resolver (src lines 74-75, 135-136, 142-143)
NotFound(res) ==
    end(writeHead(res, 404, ("content-type" :> "text/plain")), <<[text |-> "File not found"]>>)

\* the bytes fs.readFile yields for the file at path p
FileData(p) == [fileAt |-> p]

\* the body with the error object itself, not its message, under "message":
\* JSON.stringify writes an Error as {}
ErrorBodyOfErrorObject(message) ==
    <<[key |-> "error", value |-> ProxyErrorText],
      [key |-> "message", value |-> "{}"]>>

\* JSON.stringify({ error: ..., message: err.message }): the object's members in order
ErrorBody(message) ==
    <<[key |-> "error", value |-> ProxyErrorText],
      [key |-> "message", value |-> message]>>

----------------------------------------------------------------------------
(* Routing and target construction (the synchronous part of the handler) *)

\* const fundCode = segments.pop() || segments.pop()   (history route)
HistoryFundCode(pathname) ==
    LET segments == split(pathname)
        last == segments[Len(segments)]
    IN  IF last # <<>> THEN last ELSE segments[Len(segments) - 1]

\* const fundCode = pathname.split('/').pop()          (snapshot route)
SnapshotFundCode(pathname) ==
    LET segments == split(pathname) IN segments[Len(segments)]

DefaultPageSize == 120
MinPageSize == 60
MaxPageSize == 365

\* the page size without the upper clamp: Math.max(days, 60)
pageSizeNoUpperClamp(daysParam) ==
    LET days == parseInt(daysParam) IN
    IF ~days.isNaN /\ days.value > 0
    THEN Max(days.value, MinPageSize)
    ELSE DefaultPageSize

\* Number.isFinite(days) && days > 0 ? Math.min(Math.max(days, 60), 365) : 120
pageSize(daysParam) ==
    LET days == parseInt(daysParam) IN
    IF ~days.isNaN /\ days.value > 0
    THEN Min(Max(days.value, MinPageSize), MaxPageSize)
    ELSE DefaultPageSize

HistoryTarget(fundCode, daysParam) ==
    HistoryUrlHead \o HistoryUrlFcode \o fundCode \o HistoryUrlPage
        \o NumberToString(pageSize(daysParam)) \o HistoryUrlTail

\* the snapshot URL without its ".js" suffix
SnapshotTargetNoSuffix(fundCode) ==
    SnapshotUrlHead \o fundCode

SnapshotTarget(fundCode) ==
    SnapshotUrlHead \o fundCode \o SnapshotUrlTail

DefaultHttpsPort == 443
DefaultHttpPort == 80

\* the fixed header set of every upstream request
UpstreamHeaders ==
    [n \in {"User-Agent", "Referer", "Accept", "Accept-Language", "Cache-Control"} |->
        CASE n = "User-Agent" -> "Mozilla/5.0 (Macintosh; Intel Mac OS X 10_15_7) AppleWebKit/537.36 (KHTML, like Gecko) Chrome/91.0.4472.124 Safari/537.36"
          [] n = "Referer" -> "http://fund.eastmoney.com/"
          [] n = "Accept" -> "*/*"
          [] n = "Accept-Language" -> "zh-CN,zh;q=0.9,en;q=0.8"
          [] n = "Cache-Control" -> "no-cache"]

\* the options of protocol.request in proxyRequest
ProxyOptions(method, targetUrl) ==
    [hostname |-> UrlHostname(targetUrl),
     port |-> IF UrlPort(targetUrl) # <<>> THEN DigitsValue(UrlPort(targetUrl))
              ELSE IF startsWith(targetUrl, Https) THEN DefaultHttpsPort
              ELSE DefaultHttpPort,
     path |-> UrlPath(targetUrl),
     method |-> method,
     headers |-> UpstreamHeaders,
     protocol |-> IF startsWith(targetUrl, Https) THEN "https" ELSE "http"]

\* the document root mapped to index.html, not to the default document
StaticPathIndex(pathname) ==
    pathJoin(Dirname, IF pathname = RootPath THEN <<"i", "n", "d", "e", "x">> \o HtmlExt
                      ELSE pathname)

\* path.join(__dirname, pathname === '/' ? 'fund_calculator.html' : pathname)
StaticPath(pathname) ==
    pathJoin(Dirname, IF pathname = RootPath THEN DefaultDocument ELSE pathname)

\* the routing with the two prefix tests in the other order: every path on the
\* history prefix is also on the /api/fund/ prefix
ProxyTargetSnapshotFirst(pathname, daysParam) ==
    IF startsWith(pathname, FundPrefix)
    THEN (IF SnapshotFundCode(pathname) # <<>> /\ IsFundCode(SnapshotFundCode(pathname))
          THEN SnapshotTarget(SnapshotFundCode(pathname))
          ELSE <<>>)
    ELSE IF startsWith(pathname, HistoryPrefix)
    THEN (IF HistoryFundCode(pathname) # <<>> /\ IsFundCode(HistoryFundCode(pathname))
          THEN HistoryTarget(HistoryFundCode(pathname), daysParam)
          ELSE <<>>)
    ELSE <<>>

\* the target URL the handler proxies the request to, <<>> when it proxies nothing
ProxyTarget(pathname, daysParam) ==
    IF startsWith(pathname, HistoryPrefix)
    THEN (IF HistoryFundCode(pathname) # <<>> /\ IsFundCode(HistoryFundCode(pathname))
          THEN HistoryTarget(HistoryFundCode(pathname), daysParam)
          ELSE <<>>)
    ELSE IF startsWith(pathname, FundPrefix)
    THEN (IF SnapshotFundCode(pathname) # <<>> /\ IsFundCode(SnapshotFundCode(pathname))
          THEN SnapshotTarget(SnapshotFundCode(pathname))
          ELSE <<>>)
    ELSE <<>>

----------------------------------------------------------------------------
(* The inputs and the environment *)

P_root == <<"/">>
P_calc == <<"/", "f", "u", "n", "d", "_", "c", "a", "l", "c", "u", "l", "a", "t", "o", "r", ".", "h", "t", "m", "l">>
P_about == <<"/", "a", "b", "o", "u", "t">>
P_png == <<"/", "m", "i", "s", "s", "i", "n", "g", ".", "p", "n", "g">>
C_000001 == <<"0", "0", "0", "0", "0", "1">>
C_110022 == <<"1", "1", "0", "0", "2", "2">>

\* request paths of the single-request specification
AllPaths ==
    { P_root, P_calc, P_about, P_png,
      FundPrefix \o C_000001,
      FundPrefix \o C_110022,
      FundPrefix \o C_000001 \o <<"/">>,
      FundPrefix \o <<"1", "2", "3", "4", "5">>,
      FundPrefix \o <<"1", "2", "3", "4", "5", "6", "7">>,
      FundPrefix \o <<"0", "0", "0", "0", "0", "a">>,
      FundPrefix,
      HistoryPrefix \o C_000001,
      HistoryPrefix \o C_110022,
      HistoryPrefix \o C_000001 \o <<"/">>,
      HistoryPrefix \o <<"x", "/">> \o C_000001,
      HistoryPrefix \o <<"1", "2", "3", "4", "5">>,
      HistoryPrefix \o <<"1", "2", "3", "4", "5", "/">>,
      HistoryPrefix }

\* values of the days query parameter (Undefined: the parameter is absent)
AllDays ==
    { Undefined, <<>>, <<"a", "b", "c">>, <<"0">>, <<"-", "5">>, <<"1">>,
      <<"3", "0">>, <<"5", "9">>, <<"6", "0">>, <<"2", "0", "0">>,
      <<"3", "6", "5">>, <<"3", "6", "6">>, <<"4", "0", "0", "0">>,
      <<"9", "0", ".", "5">>, <<"1", "2", "a", "b", "c">>, <<" ", "7", "0">>,
      <<"+", "8", "0">> }

AllMethods == {"GET", "POST", "OPTIONS"}

\* the days values tried with a method and a path: all of them on one history
\* request, where the handler reads the parameter, and two elsewhere
DaysFor(m, p) ==
    IF m = "GET" /\ p = HistoryPrefix \o C_000001
    THEN AllDays
    ELSE {Undefined, <<"3", "0">>}

\* req.headers: what a client may send (lower-case names, as Node gives them)
BrowserHeaders == ("accept" :> "text/html")
CookieHeaders ==
    ("cookie" :> "sid=1") @@ ("user-agent" :> "curl/8") @@ ("authorization" :> "Bearer t")
AllClientHeaders == {BrowserHeaders, CookieHeaders}

\* the client headers tried with a method and a path: all of them on the two
\* proxied fund paths, one elsewhere
HeadersFor(m, p) ==
    IF p \in {FundPrefix \o C_000001, HistoryPrefix \o C_110022}
    THEN AllClientHeaders
    ELSE {BrowserHeaders}

\* the requests of the single-request specification
AllRequests ==
    UNION { { [method |-> mp[1], pathname |-> mp[2], days |-> dh[1], headers |-> dh[2]] :
                dh \in DaysFor(mp[1], mp[2]) \X HeadersFor(mp[1], mp[2]) } :
            mp \in AllMethods \X AllPaths }

\* the requests of the concurrent specification
SomeRequests ==
    { [method |-> "OPTIONS", pathname |-> FundPrefix \o C_000001, days |-> Undefined,
       headers |-> CookieHeaders],
      [method |-> "GET", pathname |-> P_root, days |-> Undefined,
       headers |-> BrowserHeaders],
      [method |-> "GET", pathname |-> P_calc, days |-> Undefined,
       headers |-> BrowserHeaders],
      [method |-> "GET", pathname |-> P_about, days |-> Undefined,
       headers |-> BrowserHeaders],
      [method |-> "GET", pathname |-> FundPrefix \o C_000001, days |-> Undefined,
       headers |-> CookieHeaders],
      [method |-> "GET", pathname |-> FundPrefix \o <<"1", "2", "3", "4", "5">>,
       days |-> Undefined, headers |-> BrowserHeaders] }

\* the requests of the specification with a changing filesystem: the static
\* ones, an API path with a malformed code, and one proxied
RaceRequests ==
    { r \in AllRequests :
        /\ r.method = "GET" /\ r.days = Undefined
        /\ r.pathname \in {P_root, P_calc, P_about, P_png, FundPrefix \o C_000001,
                            FundPrefix \o <<"1", "2", "3", "4", "5">>} }

\* paths that may hold a file
AllFiles ==
    { pathJoin(Dirname, P_calc), pathJoin(Dirname, P_about),
      pathJoin(Dirname, P_about) \o HtmlExt, pathJoin(Dirname, P_png),
      pathJoin(Dirname, P_png) \o HtmlExt }

SomeFiles ==
    { pathJoin(Dirname, P_calc), pathJoin(Dirname, P_about) \o HtmlExt }

\* what an upstream answers: a status and its header set (lower-case names, as
\* Node's IncomingMessage gives them)
PlainUpstreamHeaders == ("content-type" :> "application/javascript")
OwnCorsUpstreamHeaders ==
    ("content-type" :> "application/json")
        @@ ("access-control-allow-origin" :> "http://fund.eastmoney.com")

AllUpstreamHeads ==
    [statusCode : {200, 404, 502}, headers : {PlainUpstreamHeaders}]
        \cup [statusCode : {200}, headers : {OwnCorsUpstreamHeaders}]

SomeUpstreamHeads == [statusCode : {200}, headers : {PlainUpstreamHeaders}]

\* err.message of an upstream failure
AllErrors == {"connect ECONNREFUSED", "socket hang up"}
SomeErrors == {"socket hang up"}

----------------------------------------------------------------------------
(* State *)

Running == exitCode = -1

InFlight == { i \in 1..Len(reqs) : reqs[i].pc # "done" }

\* the record of a request as the handler is entered
NewRequest(r) ==
    [method |-> r.method, pathname |-> r.pathname, days |-> r.days,
     headers |-> r.headers,
     pc |-> "handler", filePath |-> <<>>, fsOps |-> <<>>, fsErr |-> <<>>,
     upstream |-> <<>>,
     proxyRes |-> <<>>, errorLog |-> <<>>, res |-> NewResponse]

\* proxyRequest merging the client's headers under the fixed ones
proxyRequestForwardingHeaders(rq, targetUrl) ==
    [rq EXCEPT !.pc = "upstream",
               !.upstream = Append(@, [ProxyOptions(rq.method, targetUrl) EXCEPT
                                            !.headers = @ @@ rq.headers])]

\* proxyRequest(req, res, targetUrl): issues the upstream request; the response
\* and error callbacks run later
proxyRequest(rq, targetUrl) ==
    [rq EXCEPT !.pc = "upstream",
               !.upstream = Append(@, ProxyOptions(rq.method, targetUrl))]

\* fs.access(path, F_OK, cb): the check is issued, its callback runs later
fsAccess(rq, path, pc) ==
    [rq EXCEPT !.pc = pc, !.filePath = path,
               !.fsOps = Append(@, [op |-> "access", path |-> path])]

\* serveStaticFile(req, res, filePath): fs.readFile is issued, its callback runs later
serveStaticFile(rq) ==
    [rq EXCEPT !.pc = "read",
               !.fsOps = Append(@, [op |-> "readFile", path |-> rq.filePath])]

\* the handler with the OPTIONS test placed after the API routing
HandleRoutesFirst(r) ==
    LET rq == NewRequest(r)
        target == ProxyTarget(r.pathname, r.days)
    IN  IF target # <<>>
        THEN proxyRequest(rq, target)
        ELSE IF r.method = "OPTIONS"
        THEN [rq EXCEPT !.pc = "done",
                        !.res = end(writeHead(setCORSHeaders(rq.res), 200, NoHeaders), <<>>)]
        ELSE fsAccess(rq, StaticPath(r.pathname), "access")

\* the request handler of http.createServer, up to its first asynchronous call
Handle(r) ==
    LET rq == NewRequest(r)
        target == ProxyTarget(r.pathname, r.days)
    IN  IF r.method = "OPTIONS"
        THEN [rq EXCEPT !.pc = "done",
                        !.res = end(writeHead(setCORSHeaders(rq.res), 200, NoHeaders), <<>>)]
        ELSE IF target # <<>>
        THEN proxyRequest(rq, target)
        ELSE fsAccess(rq, StaticPath(r.pathname), "access")

Init ==
    /\ server = "starting"
    /\ exitCode = -1
    /\ closeCbs = 0
    /\ files \in SUBSET SomeFiles
    /\ unreadable \in SUBSET files
    /\ reqs = <<>>

InitOne ==
    /\ server = "starting"
    /\ exitCode = -1
    /\ closeCbs = 0
    /\ files \in { F \in SUBSET AllFiles : Cardinality(F) <= MaxFiles }
    /\ unreadable \in SUBSET files
    /\ reqs = <<>>

----------------------------------------------------------------------------
(* Actions *)

\* server.listen succeeded: the 'listening' callback
Listening ==
    /\ Running /\ server = "starting"
    /\ server' = "listening"
    /\ UNCHANGED <<exitCode, closeCbs, files, unreadable, reqs>>

\* server.listen failed (EADDRINUSE or another error): the 'error' handler exits
ListenError ==
    /\ Running /\ server = "starting"
    /\ exitCode' = 1
    /\ UNCHANGED <<server, closeCbs, files, unreadable, reqs>>

\* a request arrives on a new connection and the handler runs
Request(r, cap) ==
    /\ Running /\ server = "listening"
    /\ Len(reqs) < cap
    /\ reqs' = Append(reqs, Handle(r))
    /\ UNCHANGED <<server, exitCode, closeCbs, files, unreadable>>

\* the callback trying the ".html" path whether or not the path has an extension
AccessCallbackAlwaysFallback(i) ==
    /\ Running /\ reqs[i].pc = "access"
    /\ LET err == reqs[i].filePath \notin files
           rq == [reqs[i] EXCEPT !.fsErr = Append(@, err)]
       IN  reqs' = [reqs EXCEPT ![i] =
                IF err
                THEN fsAccess(rq, rq.filePath \o HtmlExt, "access2")
                ELSE serveStaticFile(rq)]
    /\ UNCHANGED <<server, exitCode, closeCbs, files, unreadable>>

\* the callback of the first fs.access
AccessCallback(i) ==
    /\ Running /\ reqs[i].pc = "access"
    /\ LET err == reqs[i].filePath \notin files
           rq == [reqs[i] EXCEPT !.fsErr = Append(@, err)]
       IN  reqs' = [reqs EXCEPT ![i] =
                IF err
                THEN (IF extname(rq.filePath) = <<>>
                      THEN fsAccess(rq, rq.filePath \o HtmlExt, "access2")
                      ELSE [rq EXCEPT !.pc = "done", !.res = NotFound(rq.res)])
                ELSE serveStaticFile(rq)]
    /\ UNCHANGED <<server, exitCode, closeCbs, files, unreadable>>

\* the callback with its two branches exchanged
Access2CallbackInverted(i) ==
    /\ Running /\ reqs[i].pc = "access2"
    /\ LET err == reqs[i].filePath \notin files
           rq == [reqs[i] EXCEPT !.fsErr = Append(@, err)]
       IN  reqs' = [reqs EXCEPT ![i] =
                IF err
                THEN serveStaticFile(rq)
                ELSE [rq EXCEPT !.pc = "done", !.res = NotFound(rq.res)]]
    /\ UNCHANGED <<server, exitCode, closeCbs, files, unreadable>>

\* the callback of the fs.access of the path with ".html" appended
Access2Callback(i) ==
    /\ Running /\ reqs[i].pc = "access2"
    /\ LET err == reqs[i].filePath \notin files
           rq == [reqs[i] EXCEPT !.fsErr = Append(@, err)]
       IN  reqs' = [reqs EXCEPT ![i] =
                IF err
                THEN [rq EXCEPT !.pc = "done", !.res = NotFound(rq.res)]
                ELSE serveStaticFile(rq)]
    /\ UNCHANGED <<server, exitCode, closeCbs, files, unreadable>>

\* the callback answering a failed read with a 500, not the 404
ReadFileCallback500(i) ==
    /\ Running /\ reqs[i].pc = "read"
    /\ LET err == reqs[i].filePath \notin files \/ reqs[i].filePath \in unreadable
           rq == [reqs[i] EXCEPT !.fsErr = Append(@, err)]
       IN  reqs' = [reqs EXCEPT ![i] =
                IF err
                THEN [rq EXCEPT !.pc = "done",
                        !.res = end(writeHead(rq.res, 500, ("content-type" :> "text/plain")),
                                    <<[text |-> "Internal error"]>>)]
                ELSE [rq EXCEPT !.pc = "done",
                        !.res = end(writeHead(setCORSHeaders(rq.res), 200,
                                        ("content-type" :> mimeTypes(extname(rq.filePath)))),
                                    <<FileData(rq.filePath)>>)]]
    /\ UNCHANGED <<server, exitCode, closeCbs, files, unreadable>>

\* the callback of fs.readFile in serveStaticFile
ReadFileCallback(i) ==
    /\ Running /\ reqs[i].pc = "read"
    /\ LET err == reqs[i].filePath \notin files \/ reqs[i].filePath \in unreadable
           rq == [reqs[i] EXCEPT !.fsErr = Append(@, err)]
       IN  reqs' = [reqs EXCEPT ![i] =
                IF err
                THEN [rq EXCEPT !.pc = "done", !.res = NotFound(rq.res)]
                ELSE [rq EXCEPT !.pc = "done",
                        !.res = end(writeHead(setCORSHeaders(rq.res), 200,
                                        ("content-type" :> mimeTypes(extname(rq.filePath)))),
                                    <<FileData(rq.filePath)>>)]]
    /\ UNCHANGED <<server, exitCode, closeCbs, files, unreadable>>

\* the response callback answering an upstream error status with the proxy's
\* own 500 and JSON body
UpstreamResponseErrorsTo500(i, head) ==
    /\ Running /\ reqs[i].pc = "upstream"
    /\ reqs' = [reqs EXCEPT ![i].pc = "streaming",
                            ![i].proxyRes = Append(@, head),
                            ![i].res =
                                IF head.statusCode >= 400
                                THEN write(writeHead(setCORSHeaders(@), 500,
                                                ("content-type" :> "application/json")),
                                           [json |-> ErrorBody("upstream error")])
                                ELSE writeHead(setCORSHeaders(@), head.statusCode, head.headers)]
    /\ UNCHANGED <<server, exitCode, closeCbs, files, unreadable>>

\* the response callback of protocol.request: the upstream's head arrived
UpstreamResponse(i, head) ==
    /\ Running /\ reqs[i].pc = "upstream"
    /\ reqs' = [reqs EXCEPT ![i].pc = "streaming",
                            ![i].proxyRes = Append(@, head),
                            ![i].res = writeHead(setCORSHeaders(@), head.statusCode, head.headers)]
    /\ UNCHANGED <<server, exitCode, closeCbs, files, unreadable>>

\* proxyRes.pipe(res): a chunk of the upstream body is written to the client
UpstreamData(i) ==
    /\ Running /\ reqs[i].pc = "streaming"
    /\ Len(reqs[i].res.body) < MaxChunks
    /\ reqs' = [reqs EXCEPT ![i].res = write(@, [chunk |-> Len(@.body) + 1])]
    /\ UNCHANGED <<server, exitCode, closeCbs, files, unreadable>>

\* proxyRes.pipe(res): the upstream body ended, which ends the client response
UpstreamEnd(i) ==
    /\ Running /\ reqs[i].pc = "streaming"
    /\ reqs' = [reqs EXCEPT ![i].pc = "done", ![i].res = end(@, <<>>)]
    /\ UNCHANGED <<server, exitCode, closeCbs, files, unreadable>>

\* the 'error' handler issuing the upstream request once more after a first
\* failure before the head
UpstreamErrorRetrying(i, message) ==
    /\ Running /\ reqs[i].pc \in {"upstream", "streaming"}
    /\ IF reqs[i].res.headWrites = 0
       THEN /\ reqs' = [reqs EXCEPT ![i] =
                    IF Len(@.upstream) < 2
                    THEN [@ EXCEPT !.errorLog = Append(@, message),
                                   !.upstream = Append(@, @[1])]
                    ELSE [@ EXCEPT !.pc = "done",
                                   !.errorLog = Append(@, message),
                                   !.res = end(writeHead(setCORSHeaders(@), 500,
                                                ("content-type" :> "application/json")),
                                               <<[json |-> ErrorBody(message)]>>)]]
            /\ UNCHANGED exitCode
       ELSE /\ reqs' = [reqs EXCEPT ![i].errorLog = Append(@, message)]
            /\ exitCode' = 1
    /\ UNCHANGED <<server, closeCbs, files, unreadable>>

\* the 'error' handler of the upstream request: the error is logged and the
\* 500 response written. Once the response head is written, res.setHeader
\* throws ERR_HTTP_HEADERS_SENT inside the handler: nothing catches it and the
\* process exits with status 1.
UpstreamError(i, message) ==
    /\ Running /\ reqs[i].pc \in {"upstream", "streaming"}
    /\ IF reqs[i].res.headWrites = 0
       THEN /\ reqs' = [reqs EXCEPT ![i].pc = "done",
                    ![i].errorLog = Append(@, message),
                    ![i].res = end(writeHead(setCORSHeaders(@), 500,
                                    ("content-type" :> "application/json")),
                                   <<[json |-> ErrorBody(message)]>>)]
            /\ UNCHANGED exitCode
       ELSE /\ reqs' = [reqs EXCEPT ![i].errorLog = Append(@, message)]
            /\ exitCode' = 1
    /\ UNCHANGED <<server, closeCbs, files, unreadable>>

\* the SIGINT handler: server.close(callback) stops listening and registers
\* the callback for the server's 'close' event
Sigint ==
    /\ Running /\ server \in {"listening", "closing"}
    /\ closeCbs < MaxSigint
    /\ server' = "closing"
    /\ closeCbs' = closeCbs + 1
    /\ UNCHANGED <<exitCode, files, unreadable, reqs>>

\* the server's 'close' event, emitted once it no longer listens and every
\* connection has ended: the callback of server.close calls process.exit(0)
ServerClosed ==
    /\ Running /\ server = "closing"
    /\ InFlight = {}
    /\ server' = "closed"
    /\ exitCode' = 0
    /\ UNCHANGED <<closeCbs, files, unreadable, reqs>>

\* the concurrent server: up to MaxReq requests in flight together
Next ==
    \/ Listening
    \/ ListenError
    \/ \E r \in SomeRequests : Request(r, MaxReq)
    \/ \E i \in 1..Len(reqs) : AccessCallback(i)
    \/ \E i \in 1..Len(reqs) : Access2Callback(i)
    \/ \E i \in 1..Len(reqs) : ReadFileCallback(i)
    \/ \E i \in 1..Len(reqs), head \in SomeUpstreamHeads : UpstreamResponse(i, head)
    \/ \E i \in 1..Len(reqs) : UpstreamData(i)
    \/ \E i \in 1..Len(reqs) : UpstreamEnd(i)
    \/ \E i \in 1..Len(reqs), e \in SomeErrors : UpstreamError(i, e)
    \/ Sigint
    \/ ServerClosed

Spec == Init /\ [][Next]_vars

\* one request, drawn from every method, path and days value
NextOne ==
    \/ Listening
    \/ ListenError
    \/ \E r \in AllRequests : Request(r, 1)
    \/ \E i \in 1..Len(reqs) : AccessCallback(i)
    \/ \E i \in 1..Len(reqs) : Access2Callback(i)
    \/ \E i \in 1..Len(reqs) : ReadFileCallback(i)
    \/ \E i \in 1..Len(reqs), head \in AllUpstreamHeads : UpstreamResponse(i, head)
    \/ \E i \in 1..Len(reqs) : UpstreamData(i)
    \/ \E i \in 1..Len(reqs) : UpstreamEnd(i)
    \/ \E i \in 1..Len(reqs), e \in AllErrors : UpstreamError(i, e)

SpecOne == InitOne /\ [][NextOne]_vars

\* another process removes the file at p
Unlink(p) ==
    /\ Running /\ p \in files
    /\ files' = files \ {p}
    /\ unreadable' = unreadable \ {p}
    /\ UNCHANGED <<server, exitCode, closeCbs, reqs>>

\* another process takes the read permission of the file at p away
Chmod(p) ==
    /\ Running /\ p \in files \ unreadable
    /\ unreadable' = unreadable \cup {p}
    /\ UNCHANGED <<server, exitCode, closeCbs, files, reqs>>

\* one request against a filesystem that changes between the callbacks
NextRace ==
    \/ Listening
    \/ ListenError
    \/ \E r \in RaceRequests : Request(r, 1)
    \/ \E i \in 1..Len(reqs) : AccessCallback(i)
    \/ \E i \in 1..Len(reqs) : Access2Callback(i)
    \/ \E i \in 1..Len(reqs) : ReadFileCallback(i)
    \/ \E i \in 1..Len(reqs), head \in SomeUpstreamHeads : UpstreamResponse(i, head)
    \/ \E i \in 1..Len(reqs) : UpstreamData(i)
    \/ \E i \in 1..Len(reqs) : UpstreamEnd(i)
    \/ \E i \in 1..Len(reqs), e \in SomeErrors : UpstreamError(i, e)
    \/ \E p \in AllFiles : Unlink(p)
    \/ \E p \in AllFiles : Chmod(p)

SpecRace == InitOne /\ [][NextRace]_vars

\* a pending filesystem callback of some request runs
FsCallback ==
    \E i \in 1..Len(reqs) :
        AccessCallback(i) \/ Access2Callback(i) \/ ReadFileCallback(i)

\* the specification with a changing filesystem and the pending filesystem
\* callbacks eventually run: libuv completes the fs requests it was given
SpecFair == SpecRace /\ WF_vars(FsCallback)

----------------------------------------------------------------------------
(* Vocabulary of the properties, stated apart from the operators above *)

Req(i) == reqs[i]
Arrived == 1..Len(reqs)

AsciiDigits == {"0", "1", "2", "3", "4", "5", "6", "7", "8", "9"}

\* exactly six ASCII digits
SixDigits(s) == Len(s) = 6 /\ \A k \in 1..6 : s[k] \in AsciiDigits

\* the text after the last "/" of a path
TrailingSegment(p) ==
    LET slashes == { k \in 1..Len(p) : p[k] = "/" }
        last == CHOOSE k \in slashes : \A m \in slashes : m <= k
    IN  SubSeq(p, last + 1, Len(p))

\* the path is on one of the two API prefixes
OnHistoryPrefix(p) == Len(p) >= 18 /\ SubSeq(p, 1, 18) = HistoryPrefix
OnApiPrefix(p) == Len(p) >= 10 /\ SubSeq(p, 1, 10) = FundPrefix

\* the response carries the four CORS headers with their fixed values
HasCORS(res) ==
    /\ {"access-control-allow-origin", "access-control-allow-methods",
        "access-control-allow-headers", "access-control-allow-credentials"}
            \subseteq DOMAIN res.headers
    /\ res.headers["access-control-allow-origin"] = "*"
    /\ res.headers["access-control-allow-methods"] = "GET, POST, PUT, DELETE, OPTIONS"
    /\ res.headers["access-control-allow-headers"] = "Content-Type, Authorization, X-Requested-With"
    /\ res.headers["access-control-allow-credentials"] = "true"

\* the request was handed to static-file resolution: its first step is the
\* existence check of the path joined onto the document root
HandledStatically(rq) ==
    /\ rq.fsOps # <<>>
    /\ rq.fsOps[1].op = "access"
    /\ rq.upstream = <<>>

----------------------------------------------------------------------------
(* C1: every response the server sends carries all four CORS headers *)

\* C1: every response whose head has been written (OPTIONS 200, mirrored
\* upstream response, 500 proxy error, static 200 and static 404) carries the
\* four CORS headers with their fixed values.
C1_EveryResponseHasCORS ==
    \A i \in Arrived : Req(i).res.headWrites > 0 => HasCORS(Req(i).res)

----------------------------------------------------------------------------
(* C2: a malformed fund code is never proxied *)

\* C2, as claimed: for every non-OPTIONS request on an API prefix whose
\* trailing path segment (the text after the last "/") is not exactly six
\* ASCII digits, no upstream request is issued and the request is handled by
\* static-file resolution.
C2_TrailingSegmentDecides ==
    \A i \in Arrived :
        (/\ Req(i).method # "OPTIONS"
         /\ OnApiPrefix(Req(i).pathname)
         /\ ~SixDigits(TrailingSegment(Req(i).pathname)))
        => HandledStatically(Req(i))

\* the fund code the router reads: the text after the last "/"; on the history
\* prefix, when that text is empty, the segment before the final "/"
RoutedCode(p) ==
    IF OnHistoryPrefix(p) /\ TrailingSegment(p) = <<>>
    THEN TrailingSegment(SubSeq(p, 1, Len(p) - 1))
    ELSE TrailingSegment(p)

\* C2, amended: for every non-OPTIONS request on an API prefix, if the fund
\* code the router reads (the text after the last "/", or on the history prefix
\* the segment before a final "/") is not exactly six ASCII digits, no upstream
\* request is issued and the request is handled by static-file resolution; an
\* upstream request is only ever issued for a six-digit code.
C2_MalformedCodeNeverProxied ==
    \A i \in Arrived :
        (Req(i).method # "OPTIONS" /\ OnApiPrefix(Req(i).pathname)) =>
            /\ ~SixDigits(RoutedCode(Req(i).pathname)) => HandledStatically(Req(i))
            /\ Req(i).upstream # <<>> => SixDigits(RoutedCode(Req(i).pathname))

\* a history request whose code before the final "/" has five digits has been
\* answered 404 by the static resolver
C2_Witness ==
    /\ reqs # <<>>
    /\ Req(1).method = "GET"
    /\ Req(1).pathname = HistoryPrefix \o <<"1", "2", "3", "4", "5", "/">>
    /\ Req(1).pc = "done"
    /\ Req(1).res.statusCode = 404
    /\ HandledStatically(Req(1))

----------------------------------------------------------------------------
(* C3: the pageSize of the history route *)

\* the request was proxied on the history route
HistoryProxied(rq) ==
    /\ rq.method # "OPTIONS"
    /\ OnHistoryPrefix(rq.pathname)
    /\ rq.upstream # <<>>

\* the number written after "pageSize=" in the path of the upstream request
PageSizeSent(rq) ==
    LET path == rq.upstream[1].path
        at == IndexOf(path, "?") + Len(HistoryUrlFcode) + 6 + Len(HistoryUrlPage)
    IN  DigitsValue(DigitPrefix(SubSeq(path, at + 1, Len(path))))

\* s is the decimal text of an integer: after leading white space, an
\* optional sign, then digits only
IsIntegerText(s) ==
    LET t == TrimStart(s)
        body == IF t # <<>> /\ t[1] \in {"-", "+"} THEN SubSeq(t, 2, Len(t)) ELSE t
    IN  body # <<>> /\ \A k \in 1..Len(body) : body[k] \in AsciiDigits

IntegerTextValue(s) ==
    LET t == TrimStart(s) IN
    IF t[1] = "-" THEN 0 - DigitsValue(SubSeq(t, 2, Len(t)))
    ELSE IF t[1] = "+" THEN DigitsValue(SubSeq(t, 2, Len(t)))
    ELSE DigitsValue(t)

Clamped(d) == IF d < 60 THEN 60 ELSE IF d > 365 THEN 365 ELSE d

\* C3, as claimed: on the history route with a valid code the pageSize sent
\* upstream is 120 when days is absent, not an integer, or <= 0, and
\* min(max(days, 60), 365) otherwise.
C3_NonIntegerDaysGiveDefault ==
    \A i \in Arrived : HistoryProxied(Req(i)) =>
        PageSizeSent(Req(i)) =
            IF \/ Req(i).days = Undefined
               \/ ~IsIntegerText(Req(i).days)
               \/ IntegerTextValue(Req(i).days) <= 0
            THEN 120
            ELSE Clamped(IntegerTextValue(Req(i).days))

\* the integer days begins with: white space skipped, an optional sign, then
\* the longest run of digits; none when no digit stands there
LeadingDigits(s) ==
    LET first == IF \E k \in 1..Len(s) : s[k] \notin WhiteSpace
                 THEN CHOOSE k \in 1..Len(s) :
                        s[k] \notin WhiteSpace /\ \A m \in 1..(k - 1) : s[m] \in WhiteSpace
                 ELSE Len(s) + 1
        start == IF first <= Len(s) /\ s[first] \in {"-", "+"} THEN first + 1 ELSE first
        stop == IF \E k \in start..Len(s) : s[k] \notin AsciiDigits
                THEN (CHOOSE k \in start..Len(s) :
                        s[k] \notin AsciiDigits /\ \A m \in start..(k - 1) : s[m] \in AsciiDigits) - 1
                ELSE Len(s)
    IN  [digits |-> SubSeq(s, start, stop),
         negative |-> first <= Len(s) /\ s[first] = "-"]

\* C3, amended: on the history route with a valid code the pageSize sent
\* upstream is 120 when days is absent, does not begin (after white space and
\* an optional sign) with a decimal digit, or the integer its leading digits
\* spell is <= 0; otherwise it is min(max(d, 60), 365) for that integer d
\* (a finite number), whatever follows the digits. Hence it is always 120 or
\* within [60, 365].
C3_PageSizeFromLeadingInteger ==
    \A i \in Arrived : HistoryProxied(Req(i)) =>
        LET lead == LeadingDigits(Req(i).days)
            d == DigitsValue(lead.digits)
        IN  /\ PageSizeSent(Req(i)) =
                    IF Req(i).days = Undefined \/ lead.digits = <<>> \/ lead.negative \/ d = 0
                    THEN 120
                    ELSE Clamped(d)
            /\ PageSizeSent(Req(i)) = 120
                \/ (60 <= PageSizeSent(Req(i)) /\ PageSizeSent(Req(i)) <= 365)

\* a history request with days above the range was proxied with pageSize 365
C3_Witness ==
    /\ reqs # <<>>
    /\ HistoryProxied(Req(1))
    /\ Req(1).days = <<"4", "0", "0", "0">>
    /\ PageSizeSent(Req(1)) = 365

----------------------------------------------------------------------------
(* C4: OPTIONS is terminal on every path *)

\* C4: a request with method OPTIONS is answered at once with status 200, an
\* empty body and the four CORS headers, and never issues an upstream request
\* nor touches the filesystem, whatever its path.
C4_OptionsIsTerminal ==
    \A i \in Arrived : Req(i).method = "OPTIONS" =>
        /\ Req(i).pc = "done"
        /\ Req(i).res.statusCode = 200
        /\ Req(i).res.headWrites = 1
        /\ Req(i).res.body = <<>>
        /\ Req(i).res.ended
        /\ HasCORS(Req(i).res)
        /\ Req(i).upstream = <<>>
        /\ Req(i).fsOps = <<>>

\* an OPTIONS request on the history route with a valid code and a days
\* parameter has been answered
C4_Witness ==
    /\ reqs # <<>>
    /\ Req(1).method = "OPTIONS"
    /\ Req(1).pathname = HistoryPrefix \o C_000001
    /\ Req(1).days = <<"3", "0">>
    /\ Req(1).res.ended

----------------------------------------------------------------------------
(* C5: the snapshot route *)

SnapshotHost == <<"f", "u", "n", "d", "g", "z", ".", "1", "2", "3", "4", "5", "6", "7", ".", "c", "o", "m", ".", "c", "n">>

\* the path is /api/fund/{c} for a six-digit c
IsSnapshotPath(p) ==
    /\ Len(p) = 16
    /\ SubSeq(p, 1, 10) = FundPrefix
    /\ SixDigits(SubSeq(p, 11, 16))

\* C5: for every six-digit code c, a non-OPTIONS request to /api/fund/{c}
\* issues one upstream request, over https to host fundgz.1234567.com.cn, port
\* 443, path /js/{c}.js with the code unchanged and the client's method, and
\* is not handled by static-file resolution.
C5_SnapshotTarget ==
    \A i \in Arrived :
        (Req(i).method # "OPTIONS" /\ IsSnapshotPath(Req(i).pathname)) =>
            /\ Len(Req(i).upstream) = 1
            /\ Req(i).upstream[1].protocol = "https"
            /\ Req(i).upstream[1].hostname = SnapshotHost
            /\ Req(i).upstream[1].port = 443
            /\ Req(i).upstream[1].path =
                    <<"/", "j", "s", "/">> \o SubSeq(Req(i).pathname, 11, 16) \o <<".", "j", "s">>
            /\ Req(i).upstream[1].method = Req(i).method
            /\ Req(i).fsOps = <<>>

\* a POST to the snapshot route of fund 110022 has been proxied
C5_Witness ==
    /\ reqs # <<>>
    /\ Req(1).method = "POST"
    /\ Req(1).pathname = FundPrefix \o <<"1", "1", "0", "0", "2", "2">>
    /\ Len(Req(1).upstream) = 1
    /\ Req(1).upstream[1].path = <<"/", "j", "s", "/", "1", "1", "0", "0", "2", "2", ".", "j", "s">>

----------------------------------------------------------------------------
(* C6: an upstream failure before the response head *)

\* the upstream request of rq failed before the upstream's head arrived
FailedBeforeHead(rq) == rq.errorLog # <<>> /\ rq.proxyRes = <<>>

\* the value the JSON body holds under key k, as a set (empty: no such key)
JsonValues(json, k) == { json[n].value : n \in { m \in 1..Len(json) : json[m].key = k } }

\* C6: when the upstream request fails before any response head has been sent,
\* the client receives exactly one response: status 500, the CORS headers, and
\* a JSON body whose "error" key holds the fixed message and whose "message"
\* key equals the text of the failure.
C6_UpstreamFailureGives500 ==
    \A i \in Arrived : FailedBeforeHead(Req(i)) =>
        /\ Req(i).pc = "done"
        /\ Req(i).res.headWrites = 1
        /\ Req(i).res.statusCode = 500
        /\ Req(i).res.ended
        /\ HasCORS(Req(i).res)
        /\ Req(i).res.headers["content-type"] = "application/json"
        /\ Len(Req(i).res.body) = 1
        /\ DOMAIN Req(i).res.body[1] = {"json"}
        /\ JsonValues(Req(i).res.body[1].json, "error") = {ProxyErrorText}
        /\ JsonValues(Req(i).res.body[1].json, "message") = {Req(i).errorLog[1]}
        /\ Len(Req(i).errorLog) = 1

\* a proxied history request whose upstream refused the connection
C6_Witness ==
    /\ reqs # <<>>
    /\ HistoryProxied(Req(1))
    /\ FailedBeforeHead(Req(1))
    /\ Req(1).errorLog = <<"connect ECONNREFUSED">>
    /\ Req(1).res.statusCode = 500

----------------------------------------------------------------------------
(* C7, C8: the ".html" fallback of the static resolver *)

\* the request is neither a preflight nor proxied
IsStatic(rq) == rq.method # "OPTIONS" /\ rq.upstream = <<>>

\* the literal file a static path resolves to under the document root
LiteralFile(p) ==
    IF p = <<"/">> THEN Dirname \o <<"/">> \o DefaultDocument ELSE Dirname \o p

\* the last component of the path has an extension: a "." that is not its
\* first character
HasExtension(p) ==
    LET seg == TrailingSegment(p) IN \E k \in 2..Len(seg) : seg[k] = "."

\* C7, as claimed: for a static request whose path has no extension, when the
\* literal file does not exist but the path with ".html" appended does, the
\* response is 200 with the contents of the ".html" file.
C7_FallbackServesHtml ==
    \A i \in Arrived :
        LET lit == LiteralFile(Req(i).pathname) IN
        (/\ IsStatic(Req(i)) /\ Req(i).pc = "done"
         /\ ~HasExtension(lit)
         /\ lit \notin files
         /\ (lit \o HtmlExt) \in files)
        => /\ Req(i).res.statusCode = 200
           /\ Req(i).res.body = <<FileData(lit \o HtmlExt)>>

\* C7, amended: for a static request whose path has no extension, when the
\* literal file does not exist but the path with ".html" appended exists and
\* can be read, the response is 200 with the contents of the ".html" file.
C7_FallbackServesReadableHtml ==
    \A i \in Arrived :
        LET lit == LiteralFile(Req(i).pathname) IN
        (/\ IsStatic(Req(i)) /\ Req(i).pc = "done"
         /\ ~HasExtension(lit)
         /\ lit \notin files
         /\ (lit \o HtmlExt) \in files
         /\ (lit \o HtmlExt) \notin unreadable)
        => /\ Req(i).res.statusCode = 200
           /\ Req(i).res.headWrites = 1
           /\ Req(i).res.ended
           /\ Req(i).res.body = <<FileData(lit \o HtmlExt)>>

\* /about has been answered from about.html, about itself being absent
C7_Witness ==
    /\ reqs # <<>>
    /\ Req(1).pathname = P_about
    /\ Req(1).pc = "done"
    /\ (Dirname \o P_about) \notin files
    /\ (Dirname \o P_about \o HtmlExt) \in files
    /\ Req(1).res.statusCode = 200
    /\ Req(1).res.body = <<FileData(Dirname \o P_about \o HtmlExt)>>

\* C8: for a static request whose path has an extension and whose literal file
\* does not exist, the response is 404 and the path with ".html" appended is
\* never checked nor read, even when such a file exists.
C8_NoFallbackWithExtension ==
    \A i \in Arrived :
        LET lit == LiteralFile(Req(i).pathname) IN
        (IsStatic(Req(i)) /\ HasExtension(lit) /\ lit \notin files) =>
            /\ \A k \in 1..Len(Req(i).fsOps) : Req(i).fsOps[k].path # lit \o HtmlExt
            /\ Req(i).pc = "done" =>
                /\ Req(i).res.statusCode = 404
                /\ Req(i).res.headWrites = 1
                /\ Req(i).res.body = <<[text |-> "File not found"]>>

\* /missing.png has been answered 404 although missing.png.html exists
C8_Witness ==
    /\ reqs # <<>>
    /\ Req(1).pathname = P_png
    /\ Req(1).method = "GET"
    /\ Req(1).pc = "done"
    /\ (Dirname \o P_png) \notin files
    /\ (Dirname \o P_png \o HtmlExt) \in files
    /\ Req(1).res.statusCode = 404

----------------------------------------------------------------------------
(* C9: "/" is the default document *)

\* the status, content type and body of a finished response
Observable(res) ==
    [statusCode |-> res.statusCode,
     contentType |-> res.headers["content-type"],
     body |-> res.body]

\* C9: with fund_calculator.html existing, a request for "/" and a request for
\* "/fund_calculator.html" against the same filesystem have the same status,
\* content type and body.
C9_RootIsDefaultDocument ==
    \A i, j \in Arrived :
        (/\ Req(i).pathname = <<"/">>
         /\ Req(j).pathname = <<"/">> \o DefaultDocument
         /\ Req(i).method # "OPTIONS" /\ Req(j).method # "OPTIONS"
         /\ Req(i).pc = "done" /\ Req(j).pc = "done"
         /\ (Dirname \o <<"/">> \o DefaultDocument) \in files)
        => Observable(Req(i).res) = Observable(Req(j).res)

\* both requests have been answered with the readable default document
C9_Witness ==
    /\ Len(reqs) = 2
    /\ Req(1).pathname = <<"/">>
    /\ Req(2).pathname = <<"/">> \o DefaultDocument
    /\ Req(1).pc = "done" /\ Req(2).pc = "done"
    /\ Req(1).res.statusCode = 200
    /\ Req(1).res.body = <<FileData(Dirname \o <<"/">> \o DefaultDocument)>>

----------------------------------------------------------------------------
(* C10: shutdown on the interrupt signal *)

\* C10: after an interrupt signal, once the process has exited it has exited
\* with status 0 and every request received has its complete response (no
\* request is accepted after the signal: Request needs a listening server).
C10_GracefulShutdown ==
    (closeCbs > 0 /\ ~Running) =>
        /\ exitCode = 0
        /\ \A i \in Arrived : Req(i).res.ended

----------------------------------------------------------------------------
(* C11: an upstream failure after streaming has begun *)

\* the upstream request of rq failed after the upstream's head was mirrored
FailedAfterHead(rq) == rq.errorLog # <<>> /\ rq.proxyRes # <<>>

\* the body holds a JSON text
HasJsonChunk(res) == \E k \in 1..Len(res.body) : "json" \in DOMAIN res.body[k]

\* C11: once the upstream head has been mirrored, a later upstream failure
\* writes no 500 status, no JSON error body and no second head (the head is
\* written at most once per request), and the stream simply ends: the response
\* is finished and the server goes on running.
C11_LateFailureEndsStream ==
    /\ \A i \in Arrived : Req(i).res.headWrites <= 1
    /\ \A i \in Arrived : FailedAfterHead(Req(i)) =>
            /\ Req(i).res.statusCode = Req(i).proxyRes[1].statusCode
            /\ ~HasJsonChunk(Req(i).res)
            /\ Req(i).res.ended
            /\ Running

----------------------------------------------------------------------------
(* C12: a read that fails after the existence check passed *)

\* the one response of the static resolver for a file that is not there
NotFoundResponse ==
    [headers |-> ("content-type" :> "text/plain"), statusCode |-> 404,
     headWrites |-> 1, body |-> <<[text |-> "File not found"]>>, ended |-> TRUE]

\* the last filesystem operation of rq has completed, and failed
LastFsFailed(rq) ==
    /\ rq.fsErr # <<>>
    /\ Len(rq.fsErr) = Len(rq.fsOps)
    /\ rq.fsErr[Len(rq.fsErr)]

\* the read of rq failed after its existence check had passed
ReadFailedAfterCheck(rq) ==
    /\ LastFsFailed(rq)
    /\ rq.fsOps[Len(rq.fsOps)].op = "readFile"
    /\ ~rq.fsErr[Len(rq.fsErr) - 1]

\* C12: if a file passes the existence check but the read that follows fails
\* (it was removed or made unreadable in between, or was unreadable all
\* along), the request is answered once, 404 with the plain text
\* "File not found": the same response as when the existence check itself fails.
C12_ReadFailureIsNotFound ==
    \A i \in Arrived :
        /\ ReadFailedAfterCheck(Req(i)) =>
              Req(i).pc = "done" /\ Req(i).res = NotFoundResponse
        /\ (LastFsFailed(Req(i)) /\ Req(i).pc = "done") =>
              Req(i).res = NotFoundResponse

\* the file was there when checked and gone when read, and the answer is the 404
C12_Witness ==
    /\ reqs # <<>>
    /\ ReadFailedAfterCheck(Req(1))
    /\ Req(1).filePath \notin files
    /\ Req(1).res.statusCode = 404

----------------------------------------------------------------------------
(* C13: dispatch priority of the two API prefixes *)

HistoryHost == <<"f", "u", "n", "d", "m", "o", "b", "a", "p", "i", ".", "e", "a", "s", "t", "m", "o", "n", "e", "y", ".", "c", "o", "m">>
HistoryQueryHead == <<"/", "F", "u", "n", "d", "M", "N", "e", "w", "A", "p", "i", "/", "F", "u", "n", "d", "M", "N", "H", "i", "s", "N", "e", "t", "L", "i", "s", "t", "?", "F", "C", "O", "D", "E", "=">>
HistoryQueryPage == <<"&", "p", "a", "g", "e", "I", "n", "d", "e", "x", "=", "1", "&", "p", "a", "g", "e", "S", "i", "z", "e", "=">>

\* s begins with the text t
BeginsWith(s, t) == Len(s) >= Len(t) /\ \A k \in 1..Len(t) : s[k] = t[k]

\* C13: a non-OPTIONS request on the /api/fund/history/ prefix whose fund code
\* is six digits is forwarded only to the history endpoint (host
\* fundmobapi.eastmoney.com, path /FundMNewApi/FundMNHisNetList with FCODE the
\* code and pageIndex=1), never to the snapshot endpoint; every proxied request
\* has exactly one upstream target, the history endpoint on the history prefix
\* and the snapshot endpoint otherwise.
C13_HistoryPrefixFirst ==
    \A i \in Arrived :
        /\ (/\ Req(i).method # "OPTIONS"
            /\ OnHistoryPrefix(Req(i).pathname)
            /\ SixDigits(RoutedCode(Req(i).pathname)))
           => /\ Len(Req(i).upstream) = 1
              /\ Req(i).upstream[1].hostname = HistoryHost
              /\ BeginsWith(Req(i).upstream[1].path,
                    HistoryQueryHead \o RoutedCode(Req(i).pathname) \o HistoryQueryPage)
        /\ Req(i).upstream # <<>> =>
              /\ Len(Req(i).upstream) = 1
              /\ Req(i).upstream[1].hostname =
                    IF OnHistoryPrefix(Req(i).pathname) THEN HistoryHost ELSE SnapshotHost

\* a history request for fund 110022 was forwarded to the history endpoint
C13_Witness ==
    /\ reqs # <<>>
    /\ Req(1).pathname = HistoryPrefix \o <<"1", "1", "0", "0", "2", "2">>
    /\ Len(Req(1).upstream) = 1
    /\ Req(1).upstream[1].hostname = HistoryHost

----------------------------------------------------------------------------
(* C14: the upstream status is mirrored *)

\* C14: when the upstream returns a response head, the client response status
\* equals the upstream status, 4xx and 5xx included, and the response is never
\* the proxy's own 500 JSON error response.
C14_StatusMirrored ==
    \A i \in Arrived : Req(i).proxyRes # <<>> =>
        /\ Req(i).res.headWrites = 1
        /\ Req(i).res.statusCode = Req(i).proxyRes[1].statusCode
        /\ ~HasJsonChunk(Req(i).res)

\* an upstream 502 has been mirrored and its body delivered to the end
C14_Witness ==
    /\ reqs # <<>>
    /\ Req(1).proxyRes # <<>>
    /\ Req(1).proxyRes[1].statusCode = 502
    /\ Req(1).res.statusCode = 502
    /\ Req(1).res.ended

----------------------------------------------------------------------------
(* C15: the upstream request's headers and method *)

\* the five headers of an upstream request
FixedHeaders ==
    ("User-Agent" :> "Mozilla/5.0 (Macintosh; Intel Mac OS X 10_15_7) AppleWebKit/537.36 (KHTML, like Gecko) Chrome/91.0.4472.124 Safari/537.36")
        @@ ("Referer" :> "http://fund.eastmoney.com/")
        @@ ("Accept" :> "*/*")
        @@ ("Accept-Language" :> "zh-CN,zh;q=0.9,en;q=0.8")
        @@ ("Cache-Control" :> "no-cache")

\* C15: the headers of every upstream request are exactly the fixed set
\* (User-Agent, Referer, Accept, Accept-Language, Cache-Control) whatever the
\* client sent, no client header among them, and the upstream request's method
\* is the client's.
C15_FixedUpstreamHeaders ==
    \A i \in Arrived : \A k \in 1..Len(Req(i).upstream) :
        /\ Req(i).upstream[k].headers = FixedHeaders
        /\ \A n \in DOMAIN Req(i).headers : n \notin DOMAIN Req(i).upstream[k].headers
        /\ Req(i).upstream[k].method = Req(i).method

\* a POST carrying a cookie and its own user agent has been forwarded
C15_Witness ==
    /\ reqs # <<>>
    /\ Req(1).method = "POST"
    /\ "cookie" \in DOMAIN Req(1).headers
    /\ "user-agent" \in DOMAIN Req(1).headers
    /\ Len(Req(1).upstream) = 1
    /\ Req(1).upstream[1].method = "POST"

----------------------------------------------------------------------------
(* C16: no retry *)

\* C16: at most one upstream request is issued per client request; after an
\* upstream failure none follows, and the failure is in the log (and, before
\* the head, in the 500 response) at once.
C16_NoRetry ==
    \A i \in Arrived :
        /\ Len(Req(i).upstream) <= 1
        /\ Len(Req(i).errorLog) <= 1
        /\ Req(i).errorLog # <<>> =>
            /\ Len(Req(i).upstream) = 1
            /\ Req(i).pc # "upstream"
            /\ Req(i).proxyRes = <<>> =>
                /\ Req(i).res.statusCode = 500
                /\ Req(i).res.ended

\* an upstream failure before the head has been logged and answered
C16_Witness ==
    /\ reqs # <<>>
    /\ Req(1).errorLog = <<"socket hang up">>
    /\ Len(Req(1).upstream) = 1
    /\ Req(1).res.statusCode = 500

----------------------------------------------------------------------------
(* C17: concurrent requests do not interfere *)

\* what a static request for path p is answered with when handled alone
\* against the filesystem: the status and the file delivered (<<>> for the 404)
AloneStatic(p) ==
    LET lit == LiteralFile(p)
        html == lit \o HtmlExt
    IN  IF lit \in files
        THEN (IF lit \in unreadable THEN [statusCode |-> 404, file |-> <<>>]
              ELSE [statusCode |-> 200, file |-> lit])
        ELSE IF ~HasExtension(p) /\ html \in files /\ html \notin unreadable
        THEN [statusCode |-> 200, file |-> html]
        ELSE [statusCode |-> 404, file |-> <<>>]

\* the target of rq is the one of its own path
OwnTarget(rq) ==
    /\ rq.fsOps # <<>> =>
        /\ rq.fsOps[1].path = LiteralFile(rq.pathname)
        /\ rq.filePath \in {LiteralFile(rq.pathname), LiteralFile(rq.pathname) \o HtmlExt}
    /\ rq.upstream # <<>> =>
        /\ IsSnapshotPath(rq.pathname)
        /\ rq.upstream[1].hostname = SnapshotHost
        /\ rq.upstream[1].path =
                <<"/", "j", "s", "/">> \o SubSeq(rq.pathname, 11, 16) \o <<".", "j", "s">>

\* the finished response of rq is the one rq gets when handled alone
OwnResponse(rq) ==
    rq.pc = "done" =>
        /\ rq.res.ended /\ rq.res.headWrites = 1
        /\ rq.method = "OPTIONS" => rq.res.statusCode = 200 /\ rq.res.body = <<>>
        /\ rq.fsOps # <<>> =>
            /\ rq.res.statusCode = AloneStatic(rq.pathname).statusCode
            /\ rq.res.body =
                    IF AloneStatic(rq.pathname).statusCode = 200
                    THEN <<[fileAt |-> AloneStatic(rq.pathname).file]>>
                    ELSE <<[text |-> "File not found"]>>
        /\ rq.upstream # <<>> =>
            rq.res.statusCode =
                IF rq.proxyRes = <<>> THEN 500 ELSE rq.proxyRes[1].statusCode

\* C17: under every interleaving of the callbacks of the requests in flight,
\* each request's resolved file path and proxy target are those of its own
\* path, each finished response is the one the request gets when handled alone
\* against the same filesystem and upstream, and a request is left without its
\* response only by what happened to itself: in a stopped process the only
\* unanswered request is one whose own upstream failed mid-stream.
C17_NoInterference ==
    /\ \A i \in Arrived : OwnTarget(Req(i)) /\ OwnResponse(Req(i))
    /\ ~Running => \A i \in Arrived :
            Req(i).pc # "done" => FailedAfterHead(Req(i))

----------------------------------------------------------------------------
(* C18: every static request is answered, once *)

\* request i has arrived and goes to static-file resolution
StaticArrived(i) == i \in Arrived /\ IsStatic(Req(i))

\* request i has its complete response
Answered(i) == i \in Arrived /\ Req(i).pc = "done" /\ Req(i).res.ended

\* a static request has at most one head written, and once finished exactly
\* one, with status 200 or 404
AnsweredOnce ==
    \A i \in Arrived : IsStatic(Req(i)) =>
        /\ Req(i).res.headWrites <= 1
        /\ Req(i).pc = "done" =>
            /\ Req(i).res.headWrites = 1
            /\ Req(i).res.ended
            /\ Req(i).res.statusCode \in {200, 404}
        /\ Req(i).pc # "done" =>
            Req(i).res.headWrites = 0 /\ ~Req(i).res.ended

\* C18: every non-OPTIONS request that is not proxied (a static path, or an
\* API path with a malformed code) eventually has its response, provided each
\* pending filesystem callback eventually fires, whatever happens to the files
\* meanwhile; the response is written once and its status is 200 or 404.
C18_StaticEventuallyAnswered ==
    /\ []AnsweredOnce
    /\ \A i \in 1..MaxReq : StaticArrived(i) ~> Answered(i)

\* an API path with a malformed code has been answered by the static resolver
\* after both existence checks
C18_Witness ==
    /\ reqs # <<>>
    /\ Req(1).pathname = FundPrefix \o <<"1", "2", "3", "4", "5">>
    /\ IsStatic(Req(1)) /\ Answered(1)
    /\ Req(1).res.statusCode = 404
    /\ Len(Req(1).fsOps) = 2

====
